---------------------------- MODULE Spec2Model ----------------------------
(***************************************************************************)
(* Model of the chat handler of sos-impots.ai (src/api/conversations.js,   *)
(* second handler, lines 173-375): rate-limit admission, anonymous quota   *)
(* gate, answer cache, completion provider, conversation recording and     *)
(* the q_used counter cookie.                                              *)
(*                                                                         *)
(* A request occupies a slot; between two awaits of the handler the code   *)
(* runs atomically (one JavaScript turn), so there is one action per       *)
(* awaited operation: the action performs the awaited operation and then   *)
(* runs the handler up to its next await or to its response.               *)
(***************************************************************************)
EXTENDS Integers, Sequences, FiniteSets, TLC

(***************************************************************************)
(* Bounds of the model.                                                    *)
(***************************************************************************)
MaxRequests == 2
MaxAnonymousRequests == 3
MaxRepeatRequests == 3
MaxConversationRequests == 2

(***************************************************************************)
(* Program constants.                                                      *)
(***************************************************************************)
FreeLimit == 2
CookieMaxAge == 86400
TitleMax == 50
TitleLimit == 255

Slots == {"s1", "s2"}

NoSession == 0
NoUser == 0

(***************************************************************************)
(* JavaScript numbers: an integer or NaN.  The string 'illimité' of the    *)
(* remaining field is a value of the same shape.                           *)
(***************************************************************************)
Num(n) == [k |-> "num", v |-> n]
NaN == [k |-> "nan", v |-> 0]
Unlimited == [k |-> "illimite", v |-> 0]
JsNull == [k |-> "null", v |-> 0]

IsNum(x) == x.k = "num"

\* a + b of two JavaScript numbers
JsAdd(a, b) == IF IsNum(a) /\ IsNum(b) THEN Num(a.v + b.v) ELSE NaN

\* a - b of two JavaScript numbers
JsSub(a, b) == IF IsNum(a) /\ IsNum(b) THEN Num(a.v - b.v) ELSE NaN

\* a >= b : any comparison with NaN is false
JsGe(a, b) == IsNum(a) /\ IsNum(b) /\ a.v >= b.v

\* a number in the JSON body of a response: JSON.stringify writes NaN as null
JsonNumber(x) == IF x.k = "nan" THEN JsNull ELSE x

\* Math.max(a, b) : NaN if either argument is NaN
JsMax(a, b) ==
  IF IsNum(a) /\ IsNum(b) THEN (IF a.v >= b.v THEN a ELSE b) ELSE NaN

(***************************************************************************)
(* Strings are sequences of one-character strings.                         *)
(***************************************************************************)
Digits == <<"0", "1", "2", "3", "4", "5", "6", "7", "8", "9">>

IsDigit(c) == \E i \in 1..10 : Digits[i] = c

DigitVal(c) == (CHOOSE i \in 1..10 : Digits[i] = c) - 1

IsSpace(c) == c = " "

RECURSIVE SkipSpaces(_)
SkipSpaces(s) ==
  IF s # <<>> /\ IsSpace(Head(s)) THEN SkipSpaces(Tail(s)) ELSE s

\* value of the longest prefix of digits of s, continuing from acc
RECURSIVE DigitsValue(_, _)
DigitsValue(s, acc) ==
  IF s # <<>> /\ IsDigit(Head(s))
    THEN DigitsValue(Tail(s), 10 * acc + DigitVal(Head(s)))
    ELSE acc

\* parseInt(s): leading white space, an optional sign, then decimal digits up
\* to the first other character; NaN when no digit is found
ParseInt(s) ==
  LET t == SkipSpaces(s)
      neg == t # <<>> /\ Head(t) = "-"
      u == IF t # <<>> /\ Head(t) \in {"-", "+"} THEN Tail(t) ELSE t
  IN IF u = <<>> \/ ~IsDigit(Head(u))
       THEN NaN
       ELSE Num(IF neg THEN 0 - DigitsValue(u, 0) ELSE DigitsValue(u, 0))

RECURSIVE NatToString(_)
NatToString(n) ==
  IF n < 10 THEN <<Digits[n + 1]>>
  ELSE NatToString(n \div 10) \o <<Digits[(n % 10) + 1]>>

\* Number.prototype.toString()
NumToString(x) ==
  IF ~IsNum(x) THEN <<"N", "a", "N">>
  ELSE IF x.v < 0 THEN <<"-">> \o NatToString(0 - x.v)
  ELSE NatToString(x.v)

\* String.prototype.trim()
RECURSIVE TrimRight(_)
TrimRight(s) ==
  IF s # <<>> /\ IsSpace(s[Len(s)]) THEN TrimRight(SubSeq(s, 1, Len(s) - 1))
  ELSE s

Trim(s) == TrimRight(SkipSpaces(s))

\* String.prototype.toLowerCase() on the alphabet of the model
LowerChar(c) == IF c = "A" THEN "a" ELSE IF c = "B" THEN "b" ELSE c

ToLowerCase(s) == [i \in 1..Len(s) |-> LowerChar(s[i])]

(***************************************************************************)
(* Inputs of a request.  A field the handler never reads on a path is      *)
(* fixed to its default on that path (see ValidInput).                     *)
(***************************************************************************)
Methods == {"POST", "GET"}

\* req.body.message; <<>> is also the absent message
Messages == {<<>>, <<" ">>, <<"a">>, <<"A", " ">>}

\* req.body.sessionId; NoSession is the absent (falsy) identifier
SessionIds == {NoSession, 1}

\* the q_used cookie a client can present; <<>> is the absent cookie
QUsedCookies == {<<>>, <<"1">>, <<"2">>, <<"-", "1">>, <<"a">>}

\* the q_used cookie presented together with the registered cookie
RegisteredQUsedCookies == {<<>>, <<"2">>, <<"a">>}

\* the registered cookie; "" is the absent cookie
RegisteredCookies == {"", "1"}

\* the user_email cookie; "" is the absent cookie
Emails == {"", "alice", "bob", "ghost"}

\* the users table: findUserByEmail returns the user's id, NoUser for null
UserIdOf(email) ==
  IF email = "alice" THEN 1 ELSE IF email = "bob" THEN 2 ELSE NoUser

\* bodies the provider can answer with when the status is a success
ProviderBodies == {"content", "noContent", "emptyChoices", "noChoices"}

\* the status text of a provider answer that is not a success
ProviderStatusTexts == {"Unauthorized"}

ProviderAnswer == "r1"
FallbackAnswer == "desole"
ProviderTokens == 7

\* elapsed wall time Date.now() - startTime
ElapsedTimes == {3}

NoCookie == [name |-> "", value |-> <<>>, maxAge |-> 0]

NoResp ==
  [status |-> 0, kind |-> "none", success |-> FALSE, needSignup |-> FALSE,
   qUsed |-> JsNull, remaining |-> JsNull, cached |-> FALSE,
   sessionId |-> NoSession, response |-> "", error |-> "",
   setCookie |-> NoCookie, rlHeaders |-> FALSE]

\* a slot no request has used yet
IdleReq ==
  [pc |-> "idle",
   \* the request
   method |-> "POST", message |-> <<>>, sessionId |-> NoSession,
   q_used |-> <<>>, registeredCookie |-> "", user_email |-> "",
   \* the handler's locals
   qUsed |-> JsNull, registered |-> FALSE, userEmail |-> "",
   currentUser |-> NoUser, answer |-> "", fromCache |-> FALSE,
   tokensUsed |-> 0, responseTimeMs |-> 0,
   conversationSessionId |-> NoSession,
   \* what the request has done so far (history): the verdict of the
   \* limiter, its tier and key, the calls made, the number of responses
   \* sent, the step that threw, the status text of a failed provider call,
   \* the body of a successful one, the steps completed in order; answered and run are set on arrival
   \* (see ReceiveRepeat)
   rl |-> "none", rlTier |-> "none", rlKey |-> "",
   readCounter |-> FALSE, gateChecked |-> FALSE,
   lookups |-> 0, providerCalls |-> 0, stores |-> 0,
   created |-> 0, createdFresh |-> TRUE, appends |-> 0,
   recFailed |-> FALSE, countBefore |-> 0 - 1,
   sent |-> 0, threw |-> "none", upstream |-> "", body |-> "none",
   trace |-> <<>>,
   answered |-> {}, run |-> 0 - 1,
   resp |-> NoResp]

VARIABLES
  req,            \* slot -> the request handled in it
  cache,          \* normalized question -> [answer, hitCount]
  sessions,       \* session id -> [owner, title, msgs]
  nextSessionId,  \* the SERIAL sequence of conversation_sessions.id
  jar,            \* the q_used cookie held by the client
  env,            \* process.env: is OPENAI_API_KEY set
  started,        \* number of requests received so far
  hist            \* history of the run:
                  \*   freeAnswers: success answers given to unregistered
                  \*     requests
                  \*   forged: an unregistered request presented a counter
                  \*     cookie other than the one the client's browser held
                  \*   overlapped: a request arrived while another was in flight

vars ==
  <<req, cache, sessions, nextSessionId, jar, env, started, hist>>

Init ==
  /\ req = [s \in Slots |-> IdleReq]
  /\ cache = <<>>
  /\ sessions = <<>>
  /\ nextSessionId = 1
  /\ jar = <<>>
  /\ env \in BOOLEAN
  /\ started = 0
  /\ hist = [freeAnswers |-> 0, forged |-> FALSE, overlapped |-> FALSE]

(***************************************************************************)
(* Responses.                                                              *)
(***************************************************************************)
\* res.json(...): a response is sent and the handler returns
Done(r, resp) ==
  [r EXCEPT !.pc = "done", !.resp = resp, !.sent = @ + 1,
            !.trace = Append(@, "response")]

\* the error member of the body of an error response
ErrorText(kind) ==
  IF kind = "methodNotAllowed" THEN "Method not allowed"
  ELSE IF kind = "badRequest" THEN "Message is required"
  ELSE IF kind = "configMissing" THEN "Configuration manquante"
  ELSE IF kind = "providerError" THEN "Erreur lors de la generation"
  ELSE "Erreur interne du serveur"

\* res.status(code).json({ error }) : lines 183, 190, 244, 291, 371
ErrorResponse(r, code, kind) ==
  Done(r, [NoResp EXCEPT !.status = code, !.kind = kind,
                         !.error = ErrorText(kind),
                         !.rlHeaders = r.resp.rlHeaders])

\* the catch of the handler, lines 369-374
InternalError(r) == ErrorResponse(r, 500, "internalError")

\* an exception raised at step reaches the catch of the handler
Throws(r, step) == InternalError([r EXCEPT !.threw = step])

(***************************************************************************)
(* The external stores (../lib/db.js).                                     *)
(***************************************************************************)
\* the key of a question in the answer cache: trim and case-fold
NormalizeQuestion(q) == ToLowerCase(Trim(q))

\* title of a session created from a message: its first TitleMax characters,
\* with an ellipsis when the message is longer
SessionTitle(m) ==
  IF Len(m) > TitleMax THEN SubSeq(m, 1, TitleMax) \o <<".", ".", ".">> ELSE m

\* saveCachedAnswer(question, answer): created on the first miss, an existing
\* entry keeps its answer
CacheAfterSave(c, q, a) ==
  LET key == NormalizeQuestion(q)
  IN IF key \in DOMAIN c THEN c
     ELSE [k \in DOMAIN c \cup {key} |->
             IF k = key THEN [answer |-> a, hitCount |-> 0] ELSE c[k]]

\* getCachedAnswer(question) on a hit: the hit counter is incremented
CacheAfterHit(c, q) ==
  LET key == NormalizeQuestion(q)
  IN [c EXCEPT ![key].hitCount = @ + 1]

\* message_count of a session, -1 when there is no such session
MessageCount(ss, id) == IF id \in DOMAIN ss THEN Len(ss[id].msgs) ELSE 0 - 1

\* createConversationSession(userId, message): a new row with the next id
SessionsAfterCreate(ss, id, userId, m) ==
  [i \in DOMAIN ss \cup {id} |->
     IF i = id THEN [owner |-> userId, title |-> SessionTitle(m), msgs |-> <<>>]
     ELSE ss[i]]

\* addConversationMessage(sessionId, role, content, metadata): the call carries
\* no user id; the row is appended to the session named by sessionId.  The
\* field by (history) is the user on whose behalf the handler appended.
SessionsAfterAppend(ss, id, msg) ==
  [ss EXCEPT ![id].msgs = Append(@, msg)]

(***************************************************************************)
(* The chat handler, lines 173-375.                                        *)
(***************************************************************************)
\* line 189: !message || message.trim() === ''
MessageMissing(m) == m = <<>> \/ Trim(m) = <<>>

\* line 217: the limiter
LimiterOf(registered) == IF registered THEN "registered" ELSE "anonymous"

\* line 218: the identifier the limiter is keyed by; the client address is "ip"
IdentifierOf(registered, userEmail) ==
  IF registered /\ userEmail # "" THEN userEmail ELSE "ip"

\* faulty variant of QuotaBlocked: the gate closes only above the limit
QuotaBlockedAbove(registered, qUsed) ==
  ~registered /\ JsGe(qUsed, Num(FreeLimit + 1))

\* faulty variant of QuotaBlocked: the registered flag is not consulted
QuotaBlockedEveryone(registered, qUsed) == JsGe(qUsed, Num(FreeLimit))

\* line 231: the quota gate
QuotaBlocked(registered, qUsed) == ~registered /\ JsGe(qUsed, Num(FreeLimit))

\* faulty variant of NewQUsed: the counter is not advanced
NewQUsedUnchanged(registered, qUsed) == qUsed

\* line 349
NewQUsed(registered, qUsed) ==
  IF registered THEN qUsed ELSE JsAdd(qUsed, Num(1))

\* line 350
Remaining(registered, newQUsed) ==
  IF registered THEN Unlimited ELSE JsMax(Num(0), JsSub(Num(2), newQUsed))

\* lines 353-358: the Set-Cookie header of a success response
CounterCookie(registered, newQUsed) ==
  IF ~registered
    THEN [name |-> "q_used", value |-> NumToString(newQUsed),
          maxAge |-> 24 * 60 * 60]
    ELSE NoCookie

\* faulty variant of ResponseSessionId: the identifier of the request is sent
\* back
ResponseSessionIdOfRequest(r) == r.sessionId

\* line 366: the sessionId member of the success response
ResponseSessionId(r) == r.conversationSessionId

\* lines 348-367: counter update and success response
Respond(r) ==
  LET newQUsed == NewQUsed(r.registered, r.qUsed)
  IN Done([r EXCEPT !.trace = Append(@, "counter")],
          [status |-> 200, kind |-> "success", success |-> TRUE,
           needSignup |-> FALSE, qUsed |-> JsonNumber(newQUsed),
           remaining |-> JsonNumber(Remaining(r.registered, newQUsed)),
           cached |-> r.fromCache, sessionId |-> ResponseSessionId(r),
           response |-> r.answer, error |-> "",
           setCookie |-> CounterCookie(r.registered, newQUsed),
           rlHeaders |-> r.resp.rlHeaders])

\* faulty variant of RecordingFailed: the error of the recording block reaches
\* the catch of the handler
RecordingFailedRethrows(r) == InternalError([r EXCEPT !.recFailed = TRUE])

\* lines 342-345: the catch of the recording block, then lines 348-367
RecordingFailed(r) == Respond([r EXCEPT !.recFailed = TRUE])

\* faulty variant of StartRecording: the session identifier of the request is
\* not used, a session is created for every exchange
StartRecordingNewSession(r, elapsed) ==
  LET r1 == [r EXCEPT !.responseTimeMs = elapsed]
  IN IF r1.currentUser # NoUser THEN [r1 EXCEPT !.pc = "createSession"]
     ELSE Respond([r1 EXCEPT !.conversationSessionId = r.sessionId])

\* lines 306-320: after the answer is known, up to the first await of the
\* recording block, or to the response when there is no current user
StartRecording(r, elapsed) ==
  LET r1 == [r EXCEPT !.responseTimeMs = elapsed,
                      !.conversationSessionId = r.sessionId]
  IN IF r1.currentUser # NoUser
       THEN IF r1.conversationSessionId = NoSession
              THEN [r1 EXCEPT !.pc = "createSession"]
              ELSE [r1 EXCEPT !.pc = "addUserMessage"]
       ELSE Respond(r1)

\* faulty variant of AddRateLimitHeaders: the headers are not set
AddRateLimitHeadersSkipped(r) == r

\* line 228: addRateLimitHeaders(res, rateLimit)
AddRateLimitHeaders(r) == [r EXCEPT !.resp.rlHeaders = TRUE]

\* faulty variant of AfterAdmission: the provider credential is not checked
AfterAdmissionNoKeyCheck(r, apiKey) ==
  LET r1 == [AddRateLimitHeaders(r) EXCEPT !.gateChecked = TRUE,
                                           !.trace = Append(@, "gate")]
  IN IF QuotaBlocked(r1.registered, r1.qUsed)
       THEN Done(r1, [NoResp EXCEPT !.status = 200, !.kind = "needSignup",
                                    !.needSignup = TRUE,
                                    !.qUsed = JsonNumber(r1.qUsed),
                                    !.remaining = Num(0),
                                    !.rlHeaders = r1.resp.rlHeaders])
     ELSE [r1 EXCEPT !.pc = "getCachedAnswer"]

\* lines 228-253: after admission, up to the await of getCachedAnswer
AfterAdmission(r, apiKey) ==
  LET r1 == [AddRateLimitHeaders(r) EXCEPT !.gateChecked = TRUE,
                                           !.trace = Append(@, "gate")]
  IN IF QuotaBlocked(r1.registered, r1.qUsed)
       THEN Done(r1, [NoResp EXCEPT !.status = 200, !.kind = "needSignup",
                                    !.needSignup = TRUE,
                                    !.qUsed = JsonNumber(r1.qUsed),
                                    !.remaining = Num(0),
                                    !.rlHeaders = r1.resp.rlHeaders])
     ELSE IF ~apiKey
       THEN ErrorResponse(r1, 500, "configMissing")
     ELSE [r1 EXCEPT !.pc = "getCachedAnswer"]

\* faulty variant of OnRateLimit: a denial does not end the request
OnRateLimitIgnoresDenial(r, success, apiKey) ==
  AfterAdmission([r EXCEPT !.rl = IF success THEN "allow" ELSE "deny"], apiKey)

\* faulty variant of OnRateLimit: the quota gate is evaluated before the
\* verdict of the limiter is looked at
OnRateLimitGateFirst(r, success, apiKey) ==
  LET r1 == [r EXCEPT !.rl = IF success THEN "allow" ELSE "deny"]
  IN IF QuotaBlocked(r1.registered, r1.qUsed) \/ success
       THEN AfterAdmission(r1, apiKey)
       ELSE Done(r1, [NoResp EXCEPT !.status = 429, !.kind = "rateLimited",
                                    !.rlHeaders = TRUE])

\* faulty variant of OnRateLimit: the denial is sent but the handler does not
\* return
OnRateLimitNoReturn(r, success, apiKey) ==
  LET r1 == [r EXCEPT !.trace = Append(@, "admission")]
  IN IF ~success
       THEN AfterAdmission(Done([r1 EXCEPT !.rl = "deny"],
                                [NoResp EXCEPT !.status = 429,
                                               !.kind = "rateLimited",
                                               !.rlHeaders = TRUE]), apiKey)
       ELSE AfterAdmission([r1 EXCEPT !.rl = "allow"], apiKey)

\* lines 222-228: the verdict of the limiter; sendRateLimitError answers 429
\* with the usage headers
OnRateLimit(r, success, apiKey) ==
  LET r1 == [r EXCEPT !.trace = Append(@, "admission")]
  IN IF ~success
       THEN Done([r1 EXCEPT !.rl = "deny"],
                 [NoResp EXCEPT !.status = 429, !.kind = "rateLimited",
                                !.rlHeaders = TRUE])
       ELSE AfterAdmission([r1 EXCEPT !.rl = "allow"], apiKey)

\* lines 214-220: up to the await of checkRateLimit
ToRateLimit(r) ==
  [r EXCEPT !.pc = "checkRateLimit",
            !.rlTier = LimiterOf(r.registered),
            !.rlKey = IdentifierOf(r.registered, r.userEmail)]

\* lines 193-209: the cookies are read, up to the first await
ReadCookies(r) ==
  LET r1 == [r EXCEPT !.readCounter = TRUE,
                      !.qUsed = ParseInt(IF r.q_used = <<>> THEN <<"0">>
                                         ELSE r.q_used),
                      !.registered = (r.registeredCookie = "1"),
                      !.userEmail = r.user_email]
  IN IF r1.registered /\ r1.userEmail # ""
       THEN [r1 EXCEPT !.pc = "findUserByEmail"]
       ELSE ToRateLimit(r1)

\* lines 182-209: from the start of the handler to its first await
OnRequest(r) ==
  IF r.method # "POST" THEN ErrorResponse(r, 405, "methodNotAllowed")
  ELSE IF MessageMissing(r.message) THEN ErrorResponse(r, 400, "badRequest")
  ELSE ReadCookies(r)

(***************************************************************************)
(* Actions.                                                                *)
(***************************************************************************)
\* the slot takes its new value; a response reaches the client, whose browser
\* stores the cookie the response sets
Commit(s, r) ==
  /\ req' = [req EXCEPT ![s] = r]
  /\ jar' = IF r.pc = "done" /\ r.resp.setCookie.name = "q_used"
              THEN r.resp.setCookie.value ELSE jar

\* a success answer to an unregistered request is counted
Counted(r) ==
  IF r.pc = "done" /\ r.resp.kind = "success" /\ ~r.registered THEN 1 ELSE 0

\* an action of a request in flight
Step(s, r) ==
  /\ Commit(s, r)
  /\ hist' = [hist EXCEPT !.freeAnswers = @ + Counted(r)]

\* the requests a client can send; a field that the handler does not read
\* for the request is left at its default
ValidInput(method, message, sessionId, registeredCookie, email) ==
  /\ method # "POST" =>
       message = <<>> /\ sessionId = NoSession /\ registeredCookie = ""
  /\ MessageMissing(message) => sessionId = NoSession /\ registeredCookie = ""
  /\ registeredCookie # "1" => email = ""

ReadsCookies(method, message) == method = "POST" /\ ~MessageMissing(message)

\* the q_used cookies presented with a request
PresentedCookies(method, message, registeredCookie, cookies) ==
  IF ~ReadsCookies(method, message) THEN {<<>>}
  ELSE IF registeredCookie = "1" THEN RegisteredQUsedCookies
  ELSE cookies

\* request number started + 1 arrives in slot s, one of the requests of the
\* set inputs, its q_used cookie one of cookies; lines 173-209
ReceiveFrom(s, inputs, cookies) ==
  /\ req[s].pc \in {"idle", "done"}
  /\ started' = started + 1
  /\ \E i \in inputs :
       \E q \in PresentedCookies(i.method, i.message, i.registeredCookie,
                                 cookies) :
         /\ Commit(s, OnRequest([IdleReq EXCEPT
                                   !.method = i.method, !.message = i.message,
                                   !.sessionId = i.sessionId, !.q_used = q,
                                   !.registeredCookie = i.registeredCookie,
                                   !.user_email = i.user_email,
                                   !.countBefore =
                                      MessageCount(sessions, i.sessionId)]))
         /\ hist' =
              [hist EXCEPT
                 !.forged = @ \/ (/\ ReadsCookies(i.method, i.message)
                                  /\ i.registeredCookie # "1"
                                  /\ q # jar),
                 !.overlapped =
                    @ \/ \E t \in Slots : req[t].pc \notin {"idle", "done"}]
  /\ UNCHANGED <<cache, sessions, nextSessionId, env>>

Inputs ==
  {i \in [method : Methods, message : Messages, sessionId : SessionIds,
          registeredCookie : RegisteredCookies, user_email : Emails] :
     ValidInput(i.method, i.message, i.sessionId, i.registeredCookie,
                i.user_email)}

\* the requests of a client without the registered cookie and without a
\* session identifier
AnonymousInputs ==
  {i \in Inputs : i.registeredCookie = "" /\ i.sessionId = NoSession}

\* the client sends a request once the previous one is answered, and presents
\* any counter cookie: the one its browser holds or one of its own making
Receive ==
  /\ \A t \in Slots : req[t].pc \in {"idle", "done"}
  /\ started < MaxRequests
  /\ ReceiveFrom("s1", Inputs, QUsedCookies \cup {jar})

\* an unregistered client sends a request, possibly while its previous one is
\* in flight (the second slot is taken only then)
ReceiveAnonymous(s) ==
  /\ started < MaxAnonymousRequests
  /\ s = "s2" => req["s1"].pc \notin {"idle", "done"}
  /\ ReceiveFrom(s, AnonymousInputs, QUsedCookies \cup {jar})

\* lines 203-209: findUserByEmail resolves or throws (caught)
FindUserByEmail(s) ==
  /\ req[s].pc = "findUserByEmail"
  /\ \E ok \in BOOLEAN :
       Step(s, ToRateLimit([req[s] EXCEPT !.currentUser =
                                IF ok THEN UserIdOf(req[s].userEmail)
                                ELSE NoUser]))
  /\ UNCHANGED <<cache, sessions, nextSessionId, env, started>>

\* lines 220-253: checkRateLimit resolves with a verdict, or throws
CheckRateLimit(s) ==
  /\ req[s].pc = "checkRateLimit"
  /\ \E outcome \in {"allow", "deny", "throw"} :
       Step(s, IF outcome = "throw" THEN Throws(req[s], "checkRateLimit")
                 ELSE OnRateLimit(req[s], outcome = "allow", env))
  /\ UNCHANGED <<cache, sessions, nextSessionId, env, started>>

\* line 253: the question the handler looks up
LookupQuestion(r) == r.message

\* faulty variant of StoredQuestion: the answer is stored under another text
\* than the one looked up
StoredQuestionPrefixed(r) == <<"q">> \o r.message

\* line 303: the question the handler stores the answer under
StoredQuestion(r) == r.message

\* faulty variant of AfterLookupHit: the provider is called after a hit
AfterLookupHitCallsProvider(r, answer, elapsed) ==
  [r EXCEPT !.answer = answer, !.fromCache = TRUE, !.pc = "fetch"]

\* faulty variant of AfterLookupHit: the answer of a hit is stored again
AfterLookupHitStores(r, answer, elapsed) ==
  [r EXCEPT !.answer = answer, !.fromCache = TRUE, !.pc = "saveCachedAnswer"]

\* lines 255-262 and 306-320: the lookup returned an entry
AfterLookupHit(r, answer, elapsed) ==
  StartRecording([r EXCEPT !.answer = answer, !.fromCache = TRUE], elapsed)

\* lines 263-265: the lookup returned nothing, up to the await of fetch
AfterLookupMiss(r) == [r EXCEPT !.pc = "fetch"]

\* lines 253-265 and 306-320: getCachedAnswer resolves or throws
GetCachedAnswer(s) ==
  /\ req[s].pc = "getCachedAnswer"
  /\ LET r == [req[s] EXCEPT !.lookups = @ + 1,
                             !.trace = Append(@, "lookup")]
         key == NormalizeQuestion(LookupQuestion(r))
     IN \/ /\ Step(s, Throws(r, "getCachedAnswer"))
           /\ UNCHANGED cache
        \/ /\ key \in DOMAIN cache
           /\ cache' = CacheAfterHit(cache, LookupQuestion(r))
           /\ \E elapsed \in ElapsedTimes :
                Step(s, AfterLookupHit(r, cache[key].answer, elapsed))
        \/ /\ key \notin DOMAIN cache
           /\ UNCHANGED cache
           /\ Step(s, AfterLookupMiss(r))
  /\ UNCHANGED <<sessions, nextSessionId, env, started>>

\* line 297: the answer of a success body; a body without choices throws
AnswerOf(body) == IF body = "content" THEN ProviderAnswer ELSE FallbackAnswer

\* line 300
TokensOf(body) == IF body = "content" THEN ProviderTokens ELSE 0

\* faulty variant of ProviderFailed: the status text of the provider is sent
\* to the client
ProviderFailedLeaks(r, statusText) ==
  Done([r EXCEPT !.upstream = statusText],
       [NoResp EXCEPT !.status = 500, !.kind = "providerError",
                      !.error = statusText, !.rlHeaders = r.resp.rlHeaders])

\* lines 288-294: the provider answered with a status that is not a success;
\* the status text goes to the log
ProviderFailed(r, statusText) ==
  ErrorResponse([r EXCEPT !.upstream = statusText], 500, "providerError")

\* lines 296-303: the body of a success answer is read, up to the await of
\* saveCachedAnswer; openaiData.choices[0] throws when choices is missing
OnProviderBody(r, body) ==
  LET r1 == [r EXCEPT !.body = body]
  IN IF body = "noChoices" THEN Throws(r1, "answer")
     ELSE [r1 EXCEPT !.pc = "saveCachedAnswer", !.answer = AnswerOf(body),
                     !.tokensUsed = TokensOf(body)]

\* lines 265-303: the provider answers (fetch and json), or the call throws
Fetch(s) ==
  /\ req[s].pc = "fetch"
  /\ LET r == [req[s] EXCEPT !.providerCalls = @ + 1,
                             !.trace = Append(@, "provider")]
     IN \/ Step(s, Throws(r, "fetch"))
        \/ \E statusText \in ProviderStatusTexts :
             Step(s, ProviderFailed(r, statusText))
        \/ \E body \in ProviderBodies : Step(s, OnProviderBody(r, body))
  /\ UNCHANGED <<cache, sessions, nextSessionId, env, started>>

\* lines 303-320: saveCachedAnswer resolves or throws
SaveCachedAnswer(s) ==
  /\ req[s].pc = "saveCachedAnswer"
  /\ LET r == req[s]
     IN \/ /\ Step(s, Throws(r, "saveCachedAnswer"))
           /\ UNCHANGED cache
        \/ /\ cache' = CacheAfterSave(cache, StoredQuestion(r), r.answer)
           /\ \E elapsed \in ElapsedTimes :
                Step(s, StartRecording([r EXCEPT !.stores = @ + 1,
                                                 !.trace = Append(@, "store")],
                                       elapsed))
  /\ UNCHANGED <<sessions, nextSessionId, env, started>>

\* lines 317-320: createConversationSession resolves or throws (caught)
CreateConversationSession(s) ==
  /\ req[s].pc = "createSession"
  /\ LET r == req[s]
     IN \/ /\ Step(s, RecordingFailed(r))
           /\ UNCHANGED <<sessions, nextSessionId>>
        \/ /\ sessions' = SessionsAfterCreate(sessions, nextSessionId,
                                              r.currentUser, r.message)
           /\ nextSessionId' = nextSessionId + 1
           /\ Step(s, [r EXCEPT !.pc = "addUserMessage",
                                  !.trace = Append(@, "record"),
                                  !.conversationSessionId = nextSessionId,
                                  !.created = @ + 1,
                                  !.createdFresh =
                                     nextSessionId \notin DOMAIN sessions])
  /\ UNCHANGED <<cache, env, started>>

\* lines 323-327: the arguments of the first addConversationMessage
UserMessageOf(r) ==
  [role |-> "user", content |-> r.message, tokensUsed |-> 0,
   responseTimeMs |-> JsNull, wasCached |-> FALSE, by |-> r.currentUser]

\* faulty variant of AssistantMessageOf: the cache flag is not passed on
AssistantMessageOfUncached(r) ==
  [role |-> "assistant", content |-> r.answer, tokensUsed |-> r.tokensUsed,
   responseTimeMs |-> Num(r.responseTimeMs), wasCached |-> FALSE,
   by |-> r.currentUser]

\* lines 330-334: the arguments of the second addConversationMessage
AssistantMessageOf(r) ==
  [role |-> "assistant", content |-> r.answer, tokensUsed |-> r.tokensUsed,
   responseTimeMs |-> Num(r.responseTimeMs), wasCached |-> r.fromCache,
   by |-> r.currentUser]

\* lines 323-327: the user's message is appended, or the call throws (caught)
AddUserMessage(s) ==
  /\ req[s].pc = "addUserMessage"
  /\ LET r == req[s]
     IN \/ /\ Step(s, RecordingFailed(r))
           /\ UNCHANGED sessions
        \/ /\ r.conversationSessionId \in DOMAIN sessions
           /\ sessions' = SessionsAfterAppend(sessions, r.conversationSessionId,
                                              UserMessageOf(r))
           /\ Step(s, [r EXCEPT !.pc = "addAssistantMessage",
                                  !.trace = Append(@, "record"),
                                  !.appends = @ + 1])
  /\ UNCHANGED <<cache, nextSessionId, env, started>>

\* lines 330-367: the answer is appended, or the call throws (caught); then
\* the response
AddAssistantMessage(s) ==
  /\ req[s].pc = "addAssistantMessage"
  /\ LET r == req[s]
     IN \/ /\ Step(s, RecordingFailed(r))
           /\ UNCHANGED sessions
        \/ /\ r.conversationSessionId \in DOMAIN sessions
           /\ sessions' = SessionsAfterAppend(sessions, r.conversationSessionId,
                                              AssistantMessageOf(r))
           /\ Step(s, Respond([r EXCEPT !.trace = Append(@, "record"),
                                         !.appends = @ + 1]))
  /\ UNCHANGED <<cache, nextSessionId, env, started>>

Next ==
  \/ Receive
  \/ \E s \in Slots :
    \/ FindUserByEmail(s)
    \/ CheckRateLimit(s)
    \/ GetCachedAnswer(s)
    \/ Fetch(s)
    \/ SaveCachedAnswer(s)
    \/ CreateConversationSession(s)
    \/ AddUserMessage(s)
    \/ AddAssistantMessage(s)

Spec == Init /\ [][Next]_vars

(***************************************************************************)
(* Requests of unregistered clients, two of which can be in flight at the  *)
(* same time.                                                              *)
(***************************************************************************)
NextAnonymous ==
  \E s \in Slots :
    \/ ReceiveAnonymous(s)
    \/ CheckRateLimit(s)
    \/ GetCachedAnswer(s)
    \/ Fetch(s)
    \/ SaveCachedAnswer(s)

SpecAnonymous == Init /\ [][NextAnonymous]_vars

(***************************************************************************)
(* One unregistered client that sends its requests one after the other and *)
(* always presents the counter cookie its browser holds.                   *)
(***************************************************************************)
\* the messages of the client: two spellings of one question, and another
\* question
RepeatMessages == {<<"a">>, <<"A", " ">>, <<"b">>}

\* the request was answered by the handler without a denial of the limiter
\* and without a failure
Answered(r) == r.pc = "done" /\ r.resp.kind \in {"success", "needSignup"}

\* the messages answered with success before the next request arrives
AnsweredAfter(r) ==
  r.answered \cup (IF r.pc = "done" /\ r.resp.kind = "success"
                     THEN {r.message} ELSE {})

\* the number of requests before the next one, of message m, when all of them
\* had the same message and were answered; -1 otherwise
RunAfter(r, m) ==
  IF r.pc = "idle" THEN 0
  ELSE IF r.run >= 0 /\ r.message = m /\ Answered(r) THEN r.run + 1
  ELSE 0 - 1

\* the client sends a request once the previous one is answered; lines
\* 173-209
ReceiveRepeat ==
  /\ req["s1"].pc \in {"idle", "done"}
  /\ started < MaxRepeatRequests
  /\ started' = started + 1
  /\ \E m \in RepeatMessages :
       Commit("s1", OnRequest([IdleReq EXCEPT
                                 !.message = m, !.q_used = jar,
                                 !.answered = AnsweredAfter(req["s1"]),
                                 !.run = RunAfter(req["s1"], m)]))
  /\ UNCHANGED <<cache, sessions, nextSessionId, env, hist>>

NextRepeat ==
  \/ ReceiveRepeat
  \/ CheckRateLimit("s1")
  \/ GetCachedAnswer("s1")
  \/ Fetch("s1")
  \/ SaveCachedAnswer("s1")

SpecRepeat == Init /\ [][NextRepeat]_vars

(***************************************************************************)
(* The conversations endpoint (src/unnamed/part_000), one request at a     *)
(* time, on the sessions store it shares with the chat handler.            *)
(***************************************************************************)
ConvMethods == {"GET", "DELETE", "POST", "PUT", "PATCH"}

\* req.query.action and req.body.action; "" is the absent action
ConvActions == {"", "stats", "saveAnonymous"}

\* req.query.sessionId and req.body.sessionId; <<>> is the absent identifier
ConvSessionIds == {<<>>, <<"1">>, <<"2">>, <<"x">>}

UserMsg(content) == [role |-> "user", content |-> content]
AssistantMsg(content) == [role |-> "assistant", content |-> content]

\* a content of TitleMax characters and one of TitleMax + 1
ExactContent == [i \in 1..TitleMax |-> "x"]
LongContent == [i \in 1..(TitleMax + 1) |-> "x"]

\* req.body.messages; <<>> is also the absent list
MessageLists ==
  {<<>>,
   <<UserMsg(<<"a">>)>>,
   <<AssistantMsg(<<"r">>)>>,
   <<AssistantMsg(<<"r">>), UserMsg(LongContent)>>,
   <<UserMsg(ExactContent), AssistantMsg(<<"r">>)>>}

\* req.body.title; <<>> is the absent title
Titles == {<<>>, <<"t">>, [i \in 1..(TitleLimit + 1) |-> "t"]}

\* the cookies of the callers: none, an email without the flag, the flag
\* without an email, two users, and an email of no user
ConvCallers ==
  {[registeredCookie |-> "", user_email |-> ""],
   [registeredCookie |-> "", user_email |-> "alice"],
   [registeredCookie |-> "1", user_email |-> ""],
   [registeredCookie |-> "1", user_email |-> "alice"],
   [registeredCookie |-> "1", user_email |-> "bob"],
   [registeredCookie |-> "1", user_email |-> "ghost"]}

\* lines 34 and 43: the caller passes the authentication
ConvAuthenticated(registeredCookie, email) ==
  registeredCookie = "1" /\ email # "" /\ UserIdOf(email) # NoUser

\* the requests a client can send; a field that the handler does not read
\* for the request is left at its default
ValidConvInput(i) ==
  /\ ~ConvAuthenticated(i.registeredCookie, i.user_email) =>
       /\ i.method = "GET" /\ i.action = "" /\ i.sessionId = <<>>
       /\ i.messages = <<>> /\ i.title = <<>>
  /\ i.method = "GET" =>
       /\ i.messages = <<>> /\ i.title = <<>>
       /\ i.action \in {"", "stats"}
       /\ i.action = "stats" => i.sessionId = <<>>
  /\ i.method = "DELETE" =>
       i.action = "" /\ i.messages = <<>> /\ i.title = <<>>
  /\ i.method = "POST" =>
       /\ i.sessionId = <<>> /\ i.title = <<>>
       /\ i.action \in {"", "saveAnonymous"}
       /\ i.action = "" => i.messages = <<>>
  /\ i.method = "PUT" =>
       /\ i.action = "" /\ i.messages = <<>>
       /\ i.sessionId = <<>> => i.title = <<>>
  /\ i.method = "PATCH" =>
       /\ i.action = "" /\ i.sessionId = <<>>
       /\ i.messages = <<>> /\ i.title = <<>>

ConvInputs ==
  {i \in [method : ConvMethods, action : ConvActions,
          sessionId : ConvSessionIds, messages : MessageLists,
          title : Titles, registeredCookie : RegisteredCookies,
          user_email : Emails] :
     /\ [registeredCookie |-> i.registeredCookie,
         user_email |-> i.user_email] \in ConvCallers
     /\ ValidConvInput(i)}

NoConvResp == [status |-> 0, error |-> "", sessionId |-> NoSession]

\* a request of the conversations endpoint not yet received: the request, the
\* handler's locals (user, newSession, next: the index of the message the
\* loop of line 129 is at) and what the request has done so far (history):
\* the store operations issued with their arguments, the number of responses
\* sent, whether an append failed, the sessions on arrival
IdleConv ==
  [pc |-> "idle",
   method |-> "GET", action |-> "", sessionId |-> <<>>, messages |-> <<>>,
   title |-> <<>>, registeredCookie |-> "", user_email |-> "",
   user |-> NoUser, newSession |-> NoSession, next |-> 1,
   ops |-> <<>>, sent |-> 0, appendFailed |-> FALSE, before |-> <<>>,
   resp |-> NoConvResp]

\* the errors of the store that the catch answers with 404
NotFound == "Session non trouvee"
Denied == "Acces non autorise a cette session"
Failure == "failure"

\* the store checks a session for the user (../lib/db.js): the result of
\* getSessionMessages, deleteConversationSession and updateSessionTitle
SessionAccess(ss, id, userId) ==
  IF ~IsNum(id) \/ id.v \notin DOMAIN ss THEN NotFound
  ELSE IF ss[id.v].owner # userId THEN Denied
  ELSE "ok"

\* deleteConversationSession: the row is removed
SessionsAfterDelete(ss, id) == [i \in DOMAIN ss \ {id} |-> ss[i]]

\* updateSessionTitle: the title is replaced
SessionsAfterRename(ss, id, title) == [ss EXCEPT ![id].title = title]

\* res.status(status).json(...) of the conversations endpoint
ConvDone(r, status, error) ==
  [r EXCEPT !.pc = "done", !.sent = @ + 1,
            !.resp = [status |-> status, error |-> error,
                      sessionId |-> NoSession]]

\* lines 194-207: the catch of the conversations endpoint
ConvCatch(r, message) ==
  IF message \in {NotFound, Denied} THEN ConvDone(r, 404, message)
  ELSE ConvDone(r, 500, "Erreur interne du serveur")

\* a store operation is issued with these arguments; NoUser when the call has
\* no user argument, NoSession when it has no session argument
Issue(r, op, userId, sessionId) ==
  [r EXCEPT !.ops = Append(@, [op |-> op, userId |-> userId,
                               sessionId |-> sessionId])]

\* line 121: the index of the first message of role user, 0 when none
FirstUserIndex(msgs) ==
  IF \A i \in DOMAIN msgs : msgs[i].role # "user" THEN 0
  ELSE CHOOSE i \in DOMAIN msgs :
         /\ msgs[i].role = "user"
         /\ \A j \in 1..(i - 1) : msgs[j].role # "user"

FallbackTitle ==
  <<"C", "o", "n", "v", "e", "r", "s", "a", "t", "i", "o", "n", " ",
    "a", "n", "o", "n", "y", "m", "e">>

\* String.prototype.substring(0, n)
Substring(s, n) == SubSeq(s, 1, IF Len(s) < n THEN Len(s) ELSE n)

\* lines 121-124: the title of the session of saveAnonymous
AnonymousTitle(msgs) ==
  IF FirstUserIndex(msgs) = 0 THEN FallbackTitle
  ELSE LET content == msgs[FirstUserIndex(msgs)].content
       IN Substring(content, TitleMax)
            \o (IF Len(content) > TitleMax THEN <<".", ".", ".">> ELSE <<>>)

\* lines 49-192: from the resolved user to the next await or the response
ConvDispatch(r) ==
  IF r.method = "GET"
    THEN IF r.action = "stats" THEN [r EXCEPT !.pc = "stats"]
         ELSE IF r.sessionId # <<>> THEN [r EXCEPT !.pc = "messages"]
         ELSE [r EXCEPT !.pc = "list"]
  ELSE IF r.method = "DELETE"
    THEN IF r.sessionId = <<>> THEN ConvDone(r, 400, "sessionId requis")
         ELSE [r EXCEPT !.pc = "delete"]
  ELSE IF r.method = "POST"
    THEN IF r.action = "saveAnonymous"
           THEN IF r.messages = <<>> THEN ConvDone(r, 400, "Messages requis")
                ELSE [r EXCEPT !.pc = "create"]
         ELSE ConvDone(r, 400, "Action non reconnue")
  ELSE IF r.method = "PUT"
    THEN IF r.sessionId = <<>> \/ r.title = <<>>
           THEN ConvDone(r, 400, "sessionId et title requis")
         ELSE IF Len(r.title) > TitleLimit
           THEN ConvDone(r, 400, "Le titre ne peut pas depasser 255")
         ELSE [r EXCEPT !.pc = "rename"]
  ELSE ConvDone(r, 405, "Methode non supportee")

\* lines 28-42: the authentication cookies, up to the await of findUserByEmail
OnConversationsRequest(r) ==
  IF r.registeredCookie # "1" \/ r.user_email = ""
    THEN ConvDone(r, 401, "Authentification requise")
    ELSE [r EXCEPT !.pc = "findUser"]

\* faulty variant of OnUserFound: a null user is not rejected
OnUserFoundUnchecked(r, user) == ConvDispatch([r EXCEPT !.user = user])

\* lines 42-47: the user found, or null
OnUserFound(r, user) ==
  IF user = NoUser THEN ConvDone(r, 404, "Utilisateur non trouve")
  ELSE ConvDispatch([r EXCEPT !.user = user])

ConvStep(r) ==
  /\ req' = [req EXCEPT !["s1"] = r]
  /\ UNCHANGED <<cache, jar, env, started, hist>>

\* a request arrives once the previous one is answered; lines 19-42
ReceiveConversations ==
  /\ req["s1"].pc \in {"idle", "done"}
  /\ started < MaxConversationRequests
  /\ started' = started + 1
  /\ \E i \in ConvInputs :
       req' = [req EXCEPT !["s1"] =
                 OnConversationsRequest(
                   [IdleConv EXCEPT
                      !.method = i.method, !.action = i.action,
                      !.sessionId = i.sessionId, !.messages = i.messages,
                      !.title = i.title,
                      !.registeredCookie = i.registeredCookie,
                      !.user_email = i.user_email, !.before = sessions])]
  /\ UNCHANGED <<cache, sessions, nextSessionId, jar, env, hist>>

\* lines 42-47: findUserByEmail resolves or throws
ConvFindUser ==
  /\ req["s1"].pc = "findUser"
  /\ \/ ConvStep(ConvCatch(req["s1"], Failure))
     \/ ConvStep(OnUserFound(req["s1"], UserIdOf(req["s1"].user_email)))
  /\ UNCHANGED <<sessions, nextSessionId>>

\* lines 57-61 and 75-82: the statistics or the list of the user's sessions
ConvReadOwn ==
  /\ req["s1"].pc \in {"stats", "list"}
  /\ LET r == Issue(req["s1"], req["s1"].pc, req["s1"].user, NoSession)
     IN \/ ConvStep(ConvCatch(r, Failure))
        \/ ConvStep(ConvDone(r, 200, ""))
  /\ UNCHANGED <<sessions, nextSessionId>>

\* lines 65-72: the messages of a session
ConvReadMessages ==
  /\ req["s1"].pc = "messages"
  /\ LET id == ParseInt(req["s1"].sessionId)
         r == Issue(req["s1"], "messages", req["s1"].user, id)
         access == SessionAccess(sessions, id, r.user)
     IN \/ ConvStep(ConvCatch(r, Failure))
        \/ ConvStep(IF access = "ok" THEN ConvDone(r, 200, "")
                     ELSE ConvCatch(r, access))
  /\ UNCHANGED <<sessions, nextSessionId>>

\* lines 97-104: the session is deleted
ConvDelete ==
  /\ req["s1"].pc = "delete"
  /\ LET id == ParseInt(req["s1"].sessionId)
         r == Issue(req["s1"], "delete", req["s1"].user, id)
         access == SessionAccess(sessions, id, r.user)
     IN \/ ConvStep(ConvCatch(r, Failure)) /\ UNCHANGED sessions
        \/ /\ access # "ok"
           /\ ConvStep(ConvCatch(r, access))
           /\ UNCHANGED sessions
        \/ /\ access = "ok"
           /\ sessions' = SessionsAfterDelete(sessions, id.v)
           /\ ConvStep(ConvDone(r, 200, ""))
  /\ UNCHANGED nextSessionId

\* lines 178-185: the session is renamed
ConvRename ==
  /\ req["s1"].pc = "rename"
  /\ LET id == ParseInt(req["s1"].sessionId)
         r == Issue(req["s1"], "rename", req["s1"].user, id)
         access == SessionAccess(sessions, id, r.user)
     IN \/ ConvStep(ConvCatch(r, Failure)) /\ UNCHANGED sessions
        \/ /\ access # "ok"
           /\ ConvStep(ConvCatch(r, access))
           /\ UNCHANGED sessions
        \/ /\ access = "ok"
           /\ sessions' = SessionsAfterRename(sessions, id.v, r.title)
           /\ ConvStep(ConvDone(r, 200, ""))
  /\ UNCHANGED nextSessionId

\* lines 121-126: the session of saveAnonymous is created
ConvCreateSession ==
  /\ req["s1"].pc = "create"
  /\ LET r == Issue(req["s1"], "create", req["s1"].user, NoSession)
     IN \/ /\ ConvStep(ConvCatch(r, Failure))
           /\ UNCHANGED <<sessions, nextSessionId>>
        \/ /\ sessions' = SessionsAfterCreate(sessions, nextSessionId, r.user,
                                              AnonymousTitle(r.messages))
           /\ nextSessionId' = nextSessionId + 1
           /\ ConvStep([r EXCEPT !.pc = "append",
                                 !.newSession = nextSessionId])

\* lines 129-140: the metadata every message of saveAnonymous is saved with
SavedMessageOf(r, msg) ==
  [role |-> msg.role, content |-> msg.content, tokensUsed |-> 0,
   responseTimeMs |-> Num(0), wasCached |-> FALSE, by |-> r.user]

\* lines 129-152: after an append, the next one or the response
AfterAppend(r) ==
  IF r.next = Len(r.messages)
    THEN [ConvDone(r, 200, "") EXCEPT !.resp.sessionId = r.newSession]
    ELSE [r EXCEPT !.next = @ + 1]

\* lines 129-152: the next message is appended, or the call throws
ConvAddMessage ==
  /\ req["s1"].pc = "append"
  /\ LET r == Issue(req["s1"], "append", NoUser, Num(req["s1"].newSession))
     IN \/ /\ ConvStep(ConvCatch([r EXCEPT !.appendFailed = TRUE], Failure))
           /\ UNCHANGED sessions
        \/ /\ r.newSession \in DOMAIN sessions
           /\ sessions' =
                SessionsAfterAppend(sessions, r.newSession,
                                    SavedMessageOf(r, r.messages[r.next]))
           /\ ConvStep(AfterAppend(r))
  /\ UNCHANGED nextSessionId

NextConversations ==
  \/ ReceiveConversations
  \/ ConvFindUser
  \/ ConvReadOwn
  \/ ConvReadMessages
  \/ ConvDelete
  \/ ConvRename
  \/ ConvCreateSession
  \/ ConvAddMessage

SpecConversations == Init /\ [][NextConversations]_vars

(***************************************************************************)
(* Properties.                                                             *)
(***************************************************************************)
IsDone(s) == req[s].pc = "done"

\* the counter a request presents: its q_used cookie, 0 when absent
PresentedCounter(r) == ParseInt(IF r.q_used = <<>> THEN <<"0">> ELSE r.q_used)

\* the caller of a request carries the registered flag
HasRegisteredFlag(r) == r.registeredCookie = "1"

\* the request touched neither the cache, the provider nor the recorder
NoCostlyWork(r) ==
  /\ r.lookups = 0
  /\ r.providerCalls = 0
  /\ r.stores = 0
  /\ r.created = 0
  /\ r.appends = 0

\* C1: a request the rate limiter denies ends at once with the denial
\* response (429): no cache lookup, no provider call, no cache store, no
\* conversation recording, no counter cookie.
C1_DeniedDoesNothing ==
  \A s \in Slots :
    req[s].rl = "deny" =>
      /\ IsDone(s)
      /\ req[s].resp.kind = "rateLimited"
      /\ req[s].resp.status = 429
      /\ NoCostlyWork(req[s])
      /\ req[s].resp.setCookie = NoCookie

C1_Witness ==
  \E s \in Slots :
    IsDone(s) /\ req[s].rl = "deny" /\ req[s].resp.kind = "rateLimited"

\* C2 as stated: every request of an unregistered caller presenting a counter
\* of 2 or more is answered 200 with needSignup, remaining 0 and the counter
\* unchanged, and does no costly work.
C2_EveryRequestAtLimitGetsSignup ==
  \A s \in Slots :
    (IsDone(s) /\ ~HasRegisteredFlag(req[s])
       /\ JsGe(PresentedCounter(req[s]), Num(2))) =>
      /\ req[s].resp.kind = "needSignup"
      /\ req[s].resp.status = 200
      /\ NoCostlyWork(req[s])

\* C2 amended: every request that the rate limiter admits, of an unregistered
\* caller presenting a counter of 2 or more, ends with 200, success = false,
\* needSignup = true, remaining = 0 and the presented counter, and does no
\* cache lookup, provider call, cache store, recording or counter update.
C2_AdmittedAtLimitGetsSignup ==
  \A s \in Slots :
    (req[s].rl = "allow" /\ ~HasRegisteredFlag(req[s])
       /\ JsGe(PresentedCounter(req[s]), Num(2))) =>
      /\ IsDone(s)
      /\ req[s].resp.kind = "needSignup"
      /\ req[s].resp.status = 200
      /\ ~req[s].resp.success
      /\ req[s].resp.needSignup
      /\ req[s].resp.remaining = Num(0)
      /\ req[s].resp.qUsed = PresentedCounter(req[s])
      /\ NoCostlyWork(req[s])
      /\ req[s].resp.setCookie = NoCookie

C2_Witness ==
  \E s \in Slots :
    /\ IsDone(s)
    /\ req[s].rl = "allow"
    /\ ~HasRegisteredFlag(req[s])
    /\ PresentedCounter(req[s]) = Num(2)
    /\ req[s].resp.needSignup

\* C3: requests of one unregistered client that always presents the counter
\* its browser holds, some of them in flight at the same time, obtain at most
\* 2 success answers.
C3_NoDoubleSpend == ~hist.forged => hist.freeAnswers <= FreeLimit

\* C4: an unregistered client obtains at most 2 success answers over any
\* sequence of requests sent one after the other, whatever counter it
\* presents.
C4_AtMostTwoFreeAnswers == ~hist.overlapped => hist.freeAnswers <= FreeLimit

\* C5: every message the handler appends goes to a session owned by the
\* caller of the request that appended it.
C5_AppendsOnlyToOwnSessions ==
  \A id \in DOMAIN sessions :
    \A k \in 1..Len(sessions[id].msgs) :
      sessions[id].msgs[k].by = sessions[id].owner

\* C6: when a step of the recording fails (session creation, first or second
\* append), the request still ends with the 200 success response, with the
\* answer, the cached flag and the counter values of the exchange.
C6_RecordingFailureKeepsResponse ==
  \A s \in Slots :
    req[s].recFailed =>
      /\ IsDone(s)
      /\ req[s].resp.status = 200
      /\ req[s].resp.kind = "success"
      /\ req[s].resp.success
      /\ req[s].resp.response = req[s].answer
      /\ req[s].answer \in {ProviderAnswer, FallbackAnswer}
      /\ req[s].resp.cached = req[s].fromCache
      /\ req[s].resp.cached = (req[s].providerCalls = 0)
      /\ req[s].resp.qUsed = JsonNumber(PresentedCounter(req[s]))
      /\ req[s].resp.remaining = Unlimited
      /\ req[s].resp.setCookie = NoCookie

C6_Witness ==
  \E s \in Slots :
    /\ IsDone(s)
    /\ req[s].recFailed
    /\ req[s].appends = 1
    /\ req[s].resp.kind = "success"

\* C7 as stated: a request the rate limiter denies has not read the counter
\* the client presents.
C7_DeniedNeverReadsCounter ==
  \A s \in Slots : req[s].rl = "deny" => ~req[s].readCounter

\* C7 amended: the presented counter is parsed before the limiter is asked,
\* but a request the limiter denies never compares it with the limit, never
\* reports it and never advances it.
C7_DeniedNeverUsesCounter ==
  \A s \in Slots :
    /\ req[s].pc = "checkRateLimit" => req[s].readCounter /\ ~req[s].gateChecked
    /\ req[s].rl = "deny" =>
         /\ req[s].readCounter
         /\ ~req[s].gateChecked
         /\ req[s].resp.kind # "needSignup"
         /\ req[s].resp.qUsed = JsNull
         /\ req[s].resp.setCookie = NoCookie

C7_Witness ==
  \E s \in Slots :
    /\ IsDone(s)
    /\ req[s].rl = "deny"
    /\ req[s].readCounter
    /\ JsGe(PresentedCounter(req[s]), Num(2))
    /\ ~HasRegisteredFlag(req[s])

\* C8: a caller with the registered flag never gets needSignup, whatever
\* counter it presents; its success responses report remaining as unlimited
\* and qUsed as presented (the parsed cookie, null in the JSON body when it is
\* not a number), and set no counter cookie.
C8_RegisteredNeverBlocked ==
  \A s \in Slots :
    (IsDone(s) /\ HasRegisteredFlag(req[s])) =>
      /\ req[s].resp.kind # "needSignup"
      /\ ~req[s].resp.needSignup
      /\ req[s].resp.setCookie = NoCookie
      /\ req[s].resp.kind = "success" =>
           /\ req[s].resp.remaining = Unlimited
           /\ req[s].resp.qUsed = JsonNumber(PresentedCounter(req[s]))

C8_Witness ==
  \E s \in Slots :
    /\ IsDone(s)
    /\ HasRegisteredFlag(req[s])
    /\ JsGe(PresentedCounter(req[s]), Num(2))
    /\ req[s].resp.kind = "success"

\* C9: a response sets the counter cookie if and only if it is a success
\* response to a caller without the registered flag; the cookie then holds the
\* presented counter plus 1 and is valid 24 hours.
C9_CounterAdvancesByOneOnSuccess ==
  \A s \in Slots :
    IsDone(s) =>
      /\ (req[s].resp.setCookie # NoCookie) <=>
           (req[s].resp.kind = "success" /\ ~HasRegisteredFlag(req[s]))
      /\ req[s].resp.setCookie # NoCookie =>
           /\ req[s].resp.setCookie.name = "q_used"
           /\ req[s].resp.setCookie.maxAge = CookieMaxAge
           /\ IsNum(PresentedCounter(req[s]))
           /\ ParseInt(req[s].resp.setCookie.value) =
                Num(PresentedCounter(req[s]).v + 1)

\* the exchange of slot s succeeded for an identified owner
OwnerExchange(s) ==
  /\ IsDone(s)
  /\ req[s].resp.kind = "success"
  /\ req[s].currentUser # NoUser

\* the exchange of slot s continued the existing session its request names:
\* it appended two messages to it and answered with the same identifier; the
\* message count of the session grew by exactly 2 unless requests overlapped
Continued(s) ==
  LET r == req[s]
  IN /\ r.appends = 2
     /\ r.created = 0
     /\ r.resp.sessionId = r.sessionId
     /\ MessageCount(sessions, r.sessionId) >= r.countBefore + 2
     /\ ~hist.overlapped =>
          MessageCount(sessions, r.sessionId) = r.countBefore + 2

\* the exchange of slot s created a session with an identifier that no
\* session had, and answered with it
CreatedNew(s) ==
  LET r == req[s]
  IN /\ r.created = 1
     /\ r.createdFresh
     /\ r.resp.sessionId \in DOMAIN sessions
     /\ r.resp.sessionId # r.sessionId
     /\ sessions[r.resp.sessionId].owner = r.currentUser

\* C10 as stated: a successful exchange of an identified owner with an
\* existing sessionId appends exactly 2 messages to that session and answers
\* with the same sessionId; without sessionId it creates a new session.
C10_EveryExchangeRecorded ==
  \A s \in Slots :
    OwnerExchange(s) =>
      /\ req[s].countBefore >= 0 => Continued(s)
      /\ req[s].sessionId = NoSession => CreatedNew(s)

\* C10 amended: the same, for the exchanges in which no recording step
\* failed.
C10_RecordedUnlessRecordingFails ==
  \A s \in Slots :
    (OwnerExchange(s) /\ ~req[s].recFailed) =>
      /\ req[s].countBefore >= 0 => Continued(s)
      /\ req[s].sessionId = NoSession => CreatedNew(s) /\ req[s].appends = 2

C10_Witness ==
  \E s \in Slots :
    /\ OwnerExchange(s)
    /\ ~req[s].recFailed
    /\ req[s].countBefore >= 2
    /\ Continued(s)

\* the request asks a question with the key of a question that a request
\* completed before it was answered successfully
AskedBefore(r) ==
  \E q \in r.answered : NormalizeQuestion(q) = NormalizeQuestion(r.message)

\* C11: when a request for q1 has completed successfully, a later request for
\* q2 with the same normalized key (trim and case-fold) never calls the
\* provider nor stores; its lookup, unless it throws, is a hit, and its success
\* response has cached = true.
C11_SameKeyIsCacheHit ==
  \A s \in Slots :
    AskedBefore(req[s]) =>
      /\ req[s].providerCalls = 0
      /\ req[s].stores = 0
      /\ req[s].pc \notin {"fetch", "saveCachedAnswer"}
      /\ (req[s].lookups = 1 /\ req[s].threw = "none") => req[s].fromCache
      /\ req[s].resp.kind = "success" =>
           /\ req[s].resp.cached
           /\ req[s].resp.response = cache[NormalizeQuestion(req[s].message)].answer

C11_Witness ==
  \E s \in Slots :
    /\ IsDone(s)
    /\ req[s].message = <<"A", " ">>
    /\ req[s].answered = {<<"a">>}
    /\ req[s].resp.kind = "success"
    /\ req[s].resp.cached

\* a step keeps every cache entry and its answer text; the hit counter of an
\* entry stays or grows by one
CacheEntriesKept ==
  \A k \in DOMAIN cache :
    /\ k \in DOMAIN cache'
    /\ cache'[k].answer = cache[k].answer
    /\ cache'[k].hitCount \in {cache[k].hitCount, cache[k].hitCount + 1}

GenericErrors == {"configMissing", "providerError", "internalError"}

\* the status a response of each kind is sent with
StatusOf(kind) ==
  IF kind \in {"success", "needSignup"} THEN 200
  ELSE IF kind = "rateLimited" THEN 429
  ELSE IF kind = "methodNotAllowed" THEN 405
  ELSE IF kind = "badRequest" THEN 400
  ELSE 500

\* a request in flight has sent nothing; a request whose handler has returned
\* has sent one response, of one of the kinds, with the status of its kind
OneResponseAmong(kinds) ==
  \A s \in Slots :
    /\ req[s].pc # "done" => req[s].sent = 0
    /\ IsDone(s) =>
         /\ req[s].sent = 1
         /\ req[s].resp.kind \in kinds
         /\ req[s].resp.status = StatusOf(req[s].resp.kind)
         /\ req[s].resp.success = (req[s].resp.kind = "success")
         /\ req[s].resp.needSignup = (req[s].resp.kind = "needSignup")

\* C13 as stated: every request yields exactly one response, which is a
\* success, a quota-exhausted success, a rate-limit denial or a generic error.
C13_OneOfFourOutcomes ==
  OneResponseAmong({"success", "needSignup", "rateLimited"} \cup GenericErrors)

\* C13 amended: every request yields exactly one response, which is a
\* success, a quota-exhausted success, a rate-limit denial, a generic error
\* (500), or the rejection of the request itself: 405 for a method other than
\* POST, 400 for a missing or blank message.
C13_OneOfSixOutcomes ==
  OneResponseAmong({"success", "needSignup", "rateLimited",
                    "methodNotAllowed", "badRequest"} \cup GenericErrors)

C13_Witness ==
  \E s \in Slots :
    /\ IsDone(s)
    /\ req[s].sent = 1
    /\ req[s].resp.kind = "badRequest"
    /\ req[s].message = <<" ">>

\* C14: a request whose provider call returns a status that is not a success
\* ends at once with HTTP 500 and the fixed error text, which says nothing of
\* the provider's answer; the request stores nothing in the cache, creates no
\* session, appends no message and sets no counter cookie.
C14_ProviderFailureIsGeneric ==
  \A s \in Slots :
    req[s].upstream # "" =>
      /\ IsDone(s)
      /\ req[s].providerCalls = 1
      /\ req[s].resp.status = 500
      /\ req[s].resp.kind = "providerError"
      /\ req[s].resp.error = "Erreur lors de la generation"
      /\ req[s].resp.error # req[s].upstream
      /\ req[s].resp.response = ""
      /\ ~req[s].resp.success
      /\ req[s].stores = 0
      /\ req[s].created = 0
      /\ req[s].appends = 0
      /\ req[s].resp.setCookie = NoCookie
      /\ req[s].resp.qUsed = JsNull

C14_Witness ==
  \E s \in Slots :
    /\ IsDone(s)
    /\ req[s].upstream \in ProviderStatusTexts
    /\ req[s].resp.kind = "providerError"
    /\ ~HasRegisteredFlag(req[s])
    /\ req[s].lookups = 1

\* the success bodies of the provider that carry no usable answer: a choice
\* without message content, no choice, no choices member
UnusableBodies == {"noContent", "emptyChoices", "noChoices"}

\* C15: a request whose provider call succeeds with a body without a usable
\* answer does not fail on it: its answer is the fallback text, and unless the
\* cache store throws afterwards it ends with a success response carrying the
\* fallback text.
C15_UnusableBodyGetsFallback ==
  \A s \in Slots :
    req[s].body \in UnusableBodies =>
      /\ req[s].threw # "answer"
      /\ req[s].answer = FallbackAnswer
      /\ IsDone(s) =>
           \/ req[s].threw = "saveCachedAnswer"
           \/ /\ req[s].resp.kind = "success"
              /\ req[s].resp.response = FallbackAnswer

\* C16 as stated: every response carries the rate-limit usage headers.
C16_EveryResponseHasHeaders ==
  \A s \in Slots : IsDone(s) => req[s].resp.rlHeaders

\* C16 amended: a response carries the rate-limit usage headers exactly when
\* the limiter gave its verdict on the request, admission or denial; the
\* responses sent before the limiter is asked (405, 400) and the 500 sent
\* when the call of the limiter throws carry none.
C16_HeadersIffLimiterAnswered ==
  \A s \in Slots :
    IsDone(s) =>
      /\ req[s].resp.rlHeaders = (req[s].rl \in {"allow", "deny"})
      /\ req[s].rl = "none" =>
           \/ req[s].resp.kind \in {"methodNotAllowed", "badRequest"}
           \/ req[s].threw = "checkRateLimit"

C16_Witness ==
  \E s \in Slots :
    /\ IsDone(s)
    /\ req[s].rl = "allow"
    /\ req[s].resp.kind = "providerError"
    /\ req[s].resp.rlHeaders

\* the caller presents the registered flag and an account identifier
PresentsIdentity(r) == r.registeredCookie = "1" /\ r.user_email # ""

\* C17: the limiter is asked with the registered tier and the account
\* identifier as key exactly when the caller presents the registered flag and
\* an account identifier, and otherwise with the anonymous tier and the
\* network address as key.
C17_TierMatchesKey ==
  \A s \in Slots :
    req[s].rlTier # "none" =>
      /\ PresentsIdentity(req[s]) =>
           req[s].rlTier = "registered" /\ req[s].rlKey = req[s].user_email
      /\ ~PresentsIdentity(req[s]) =>
           req[s].rlTier = "anonymous" /\ req[s].rlKey = "ip"

\* C18: from an empty cache, an unregistered client that starts without a
\* counter, presents the counter the server last set and sends the same
\* message again and again, each request being admitted and answered without a
\* failure, gets: first a miss with one provider call, cached = false, qUsed =
\* 1, remaining = 1; then a hit without provider call, cached = true, qUsed =
\* 2, remaining = 0; then needSignup with remaining = 0, without lookup or
\* provider call.
C18_ThreeCallScenario ==
  \A s \in Slots :
    (Answered(req[s]) /\ req[s].run >= 0) =>
      /\ req[s].run = 0 =>
           /\ req[s].resp.kind = "success"
           /\ ~req[s].resp.cached
           /\ req[s].lookups = 1
           /\ req[s].providerCalls = 1
           /\ req[s].resp.qUsed = Num(1)
           /\ req[s].resp.remaining = Num(1)
      /\ req[s].run = 1 =>
           /\ req[s].resp.kind = "success"
           /\ req[s].resp.cached
           /\ req[s].lookups = 1
           /\ req[s].providerCalls = 0
           /\ req[s].resp.qUsed = Num(2)
           /\ req[s].resp.remaining = Num(0)
      /\ req[s].run >= 2 =>
           /\ req[s].resp.kind = "needSignup"
           /\ req[s].resp.needSignup
           /\ req[s].resp.remaining = Num(0)
           /\ req[s].lookups = 0
           /\ req[s].providerCalls = 0

C18_Witness ==
  \E s \in Slots :
    /\ Answered(req[s])
    /\ req[s].run = 2
    /\ req[s].resp.needSignup
    /\ hist.freeAnswers = 2
    /\ \A k \in DOMAIN cache : cache[k].hitCount = 1

\* the request passes the quota gate: its caller has the registered flag or
\* presents a counter that is not 2 or more
PassesQuotaGate(r) ==
  HasRegisteredFlag(r) \/ ~JsGe(PresentedCounter(r), Num(FreeLimit))

\* C19: when OPENAI_API_KEY is not set, every request that the limiter admits
\* and that passes the quota gate ends at once with HTTP 500 and the fixed
\* configuration error text, without cache lookup, provider call, cache store,
\* recording or counter cookie.
C19_MissingKeyIsGenericError ==
  \A s \in Slots :
    (~env /\ req[s].rl = "allow" /\ PassesQuotaGate(req[s])) =>
      /\ IsDone(s)
      /\ req[s].resp.status = 500
      /\ req[s].resp.kind = "configMissing"
      /\ req[s].resp.error = "Configuration manquante"
      /\ ~req[s].resp.success
      /\ req[s].resp.response = ""
      /\ NoCostlyWork(req[s])
      /\ req[s].resp.setCookie = NoCookie
      /\ req[s].resp.qUsed = JsNull

C19_Witness ==
  \E s \in Slots :
    /\ ~env
    /\ IsDone(s)
    /\ req[s].rl = "allow"
    /\ PassesQuotaGate(req[s])
    /\ req[s].currentUser # NoUser
    /\ req[s].resp.kind = "configMissing"

\* the place of a step in the order of the handler
StepRank(step) ==
  IF step = "admission" THEN 1
  ELSE IF step = "gate" THEN 2
  ELSE IF step = "lookup" THEN 3
  ELSE IF step = "provider" THEN 4
  ELSE IF step = "store" THEN 5
  ELSE IF step = "record" THEN 6
  ELSE IF step = "counter" THEN 7
  ELSE 8

\* step is among the completed steps tr
Has(tr, step) == \E i \in DOMAIN tr : tr[i] = step

\* the steps of tr are in the order of the handler; only the recording has
\* several steps (session creation and the two appends)
InOrder(tr) ==
  \A i \in 1..(Len(tr) - 1) :
    \/ StepRank(tr[i]) < StepRank(tr[i + 1])
    \/ tr[i] = "record" /\ tr[i + 1] = "record"

\* the last completed step of tr, "none" when there is none
LastStep(tr) == IF tr = <<>> THEN "none" ELSE tr[Len(tr)]

\* C20: the steps a request completes are in the order admission, quota gate,
\* cache lookup, provider call, cache store, recording, counter advance,
\* response; each step starts when the one before it has completed; the
\* provider is called only after a lookup of the same request that found
\* nothing, never after a hit; the store comes only after the provider call,
\* and recording and counter advance only once the answer is known.
C20_StepsInOrder ==
  \A s \in Slots :
    LET r == req[s]
        tr == r.trace
    IN /\ InOrder(tr)
       /\ Has(tr, "gate") => Has(tr, "admission") /\ r.rl = "allow"
       /\ Has(tr, "lookup") => Has(tr, "gate")
       /\ Has(tr, "provider") =>
            Has(tr, "lookup") /\ ~r.fromCache /\ r.lookups = 1
       /\ Has(tr, "store") => Has(tr, "provider")
       /\ r.fromCache => ~Has(tr, "provider") /\ ~Has(tr, "store")
       /\ (Has(tr, "record") \/ Has(tr, "counter")) =>
            /\ Has(tr, "lookup")
            /\ r.fromCache \/ Has(tr, "store")
       /\ Has(tr, "response") <=> IsDone(s)
       /\ r.pc = "checkRateLimit" => tr = <<>>
       /\ r.pc = "getCachedAnswer" => LastStep(tr) = "gate"
       /\ r.pc = "fetch" => LastStep(tr) = "lookup" /\ ~r.fromCache
       /\ r.pc = "saveCachedAnswer" => LastStep(tr) = "provider"
       /\ r.pc = "createSession" => LastStep(tr) \in {"lookup", "store"}
       /\ r.pc \in {"addUserMessage", "addAssistantMessage"} =>
            LastStep(tr) \in {"lookup", "store", "record"}
       /\ r.resp.kind = "success" =>
            /\ LastStep(SubSeq(tr, 1, Len(tr) - 1)) = "counter"
            /\ r.providerCalls = (IF r.resp.cached THEN 0 ELSE 1)

C20_Witness ==
  \E s \in Slots :
    /\ IsDone(s)
    /\ req[s].trace = <<"admission", "gate", "lookup", "provider", "store",
                        "record", "record", "record", "counter", "response">>

\* the exchange of slot s is recorded as the last two messages of the session
\* its response names: the question of the user with tokensUsed = 0, no
\* response time and wasCached = false, then the answer of the assistant with
\* the cached flag of the response, the elapsed time and the tokens of the
\* provider (0 on a cache hit)
RecordedPair(s) ==
  LET r == req[s]
      id == r.resp.sessionId
  IN /\ r.appends = 2
     /\ r.created <= 1
     /\ id \in DOMAIN sessions
     /\ Len(sessions[id].msgs) >= 2
     /\ LET n == Len(sessions[id].msgs)
            question == sessions[id].msgs[n - 1]
            reply == sessions[id].msgs[n]
        IN /\ question.role = "user"
           /\ question.content = r.message
           /\ question.tokensUsed = 0
           /\ question.responseTimeMs = JsNull
           /\ ~question.wasCached
           /\ reply.role = "assistant"
           /\ reply.content = r.resp.response
           /\ reply.wasCached = r.resp.cached
           /\ IsNum(reply.responseTimeMs)
           /\ reply.tokensUsed =
                (IF r.resp.cached \/ r.resp.response = FallbackAnswer THEN 0
                 ELSE ProviderTokens)

\* a request without an identified owner creates no session and appends no
\* message
NothingRecordedWithoutOwner ==
  \A s \in Slots :
    req[s].currentUser = NoUser => req[s].created = 0 /\ req[s].appends = 0

\* C21 as stated: every successful exchange of an identified owner appends
\* exactly two messages to one session, the question then the answer, with
\* the stated metadata; without an identified owner nothing is recorded.
C21_EveryExchangeHasTwoMessages ==
  /\ \A s \in Slots : OwnerExchange(s) => RecordedPair(s)
  /\ NothingRecordedWithoutOwner

\* C21 amended: the same for the exchanges in which no recording step failed;
\* an exchange in which one failed has appended fewer than two messages.
C21_TwoMessagesUnlessRecordingFails ==
  /\ \A s \in Slots :
       OwnerExchange(s) =>
         IF req[s].recFailed THEN req[s].appends < 2 ELSE RecordedPair(s)
  /\ NothingRecordedWithoutOwner

C21_Witness ==
  \E s \in Slots :
    /\ OwnerExchange(s)
    /\ ~req[s].recFailed
    /\ req[s].resp.cached
    /\ RecordedPair(s)

\* C22 as stated: every success response carries a sessionId that names the
\* session the exchange was recorded in.
C22_SuccessNamesRecordedSession ==
  \A s \in Slots :
    (IsDone(s) /\ req[s].resp.kind = "success") =>
      /\ req[s].resp.sessionId # NoSession
      /\ req[s].resp.sessionId \in DOMAIN sessions
      /\ RecordedPair(s)

\* C22 amended: the sessionId of a success response is the identifier of the
\* session the handler created for the exchange, or else the sessionId of the
\* request, absent when the request had none; it names the session the
\* exchange was recorded in when the owner is identified and no recording step
\* failed; it is absent for a request without sessionId that has no
\* identified owner or whose session creation failed.
C22_SessionIdCreatedOrEchoed ==
  \A s \in Slots :
    (IsDone(s) /\ req[s].resp.kind = "success") =>
      /\ req[s].created = 1 =>
           /\ req[s].sessionId = NoSession
           /\ req[s].resp.sessionId # NoSession
           /\ req[s].resp.sessionId \in DOMAIN sessions
           /\ sessions[req[s].resp.sessionId].owner = req[s].currentUser
      /\ req[s].created = 0 => req[s].resp.sessionId = req[s].sessionId
      /\ (req[s].currentUser # NoUser /\ ~req[s].recFailed) => RecordedPair(s)
      /\ (req[s].sessionId = NoSession /\ req[s].currentUser = NoUser) =>
           req[s].resp.sessionId = NoSession

C22_Witness ==
  \E s \in Slots :
    /\ IsDone(s)
    /\ req[s].resp.kind = "success"
    /\ req[s].created = 1
    /\ ~req[s].recFailed
    /\ req[s].resp.sessionId \in DOMAIN sessions
    /\ RecordedPair(s)

\* the request of the conversations endpoint being handled or last answered
ConvReq == req["s1"]

\* the caller of the request carries the registered flag and the email of an
\* existing user
ConvResolves(r) == ConvAuthenticated(r.registeredCookie, r.user_email)

\* the store operations the request has issued
OpsOf(r) == {r.ops[k] : k \in DOMAIN r.ops}

\* C23 as stated: unless the request carries the registered flag and an email
\* that resolves to a user, the endpoint issues no store operation, answers
\* 401 or 404 and leaves the sessions unchanged; every store operation issued
\* is passed the id of the resolved user.
C23_OnlyResolvedUserWithUserId ==
  started > 0 =>
    /\ ~ConvResolves(ConvReq) =>
         /\ ConvReq.ops = <<>>
         /\ ConvReq.pc = "done" =>
              /\ ConvReq.resp.status \in {401, 404}
              /\ sessions = ConvReq.before
    /\ \A op \in OpsOf(ConvReq) :
         op.userId # NoUser /\ op.userId = UserIdOf(ConvReq.user_email)

\* C23 amended: unless the request carries the registered flag and an email
\* that resolves to a user, the endpoint issues no store operation and leaves
\* the sessions unchanged; it answers 401 when the flag or the email is
\* missing, 404 when the email is of no user, 500 when the lookup of the user
\* fails.  Every operation issued is passed the id of the resolved user,
\* except the appends of saveAnonymous, which are passed the identifier of
\* the session the same request created for that user.
C23_OnlyResolvedUser ==
  started > 0 =>
    /\ ~ConvResolves(ConvReq) =>
         /\ ConvReq.ops = <<>>
         /\ ConvReq.pc = "done" =>
              /\ sessions = ConvReq.before
              /\ IF ConvReq.registeredCookie # "1" \/ ConvReq.user_email = ""
                   THEN ConvReq.resp.status = 401
                   ELSE ConvReq.resp.status \in {404, 500}
              /\ ConvReq.resp.status = 404 =>
                   ConvReq.resp.error = "Utilisateur non trouve"
    /\ ConvReq.ops # <<>> =>
         ConvReq.user # NoUser /\ ConvReq.user = UserIdOf(ConvReq.user_email)
    /\ \A k \in DOMAIN ConvReq.ops :
         IF ConvReq.ops[k].op = "append"
           THEN /\ ConvReq.ops[k].userId = NoUser
                /\ ConvReq.ops[k].sessionId = Num(ConvReq.newSession)
                /\ ConvReq.ops[1].op = "create"
                /\ ConvReq.newSession \notin DOMAIN ConvReq.before
                /\ ConvReq.newSession \in DOMAIN sessions
                /\ sessions[ConvReq.newSession].owner = ConvReq.user
           ELSE ConvReq.ops[k].userId = ConvReq.user

C23_Witness ==
  /\ started > 0
  /\ ConvReq.pc = "done"
  /\ ConvReq.user_email = "ghost"
  /\ ConvReq.resp.status = 404
  /\ ConvReq.ops = <<>>
  /\ sessions # <<>>
  /\ sessions = ConvReq.before

\* the title the claim gives the session of saveAnonymous
ExpectedTitle(msgs) ==
  LET users == {i \in DOMAIN msgs : msgs[i].role = "user"}
  IN IF users = {} THEN FallbackTitle
     ELSE LET first == CHOOSE i \in users : \A j \in users : i <= j
              content == msgs[first].content
          IN IF Len(content) > TitleMax
               THEN SubSeq(content, 1, TitleMax) \o <<".", ".", ".">>
               ELSE content

\* the request created one session, owned by its caller, with the expected
\* title and exactly the submitted messages in the submitted order, and
\* answered with its identifier
SavedAll(r) ==
  /\ r.newSession \notin DOMAIN r.before
  /\ r.newSession \in DOMAIN sessions
  /\ DOMAIN sessions = DOMAIN r.before \cup {r.newSession}
  /\ \A id \in DOMAIN r.before : sessions[id] = r.before[id]
  /\ r.resp.sessionId = r.newSession
  /\ sessions[r.newSession].owner = UserIdOf(r.user_email)
  /\ sessions[r.newSession].title = ExpectedTitle(r.messages)
  /\ Len(sessions[r.newSession].msgs) = Len(r.messages)
  /\ \A k \in DOMAIN r.messages :
       /\ sessions[r.newSession].msgs[k].role = r.messages[k].role
       /\ sessions[r.newSession].msgs[k].content = r.messages[k].content

\* the request left a session holding some but not all of its messages
PartlySaved(r) ==
  /\ r.newSession \in DOMAIN sessions
  /\ Len(sessions[r.newSession].msgs) \in 1..(Len(r.messages) - 1)

\* the first sentence of C24: a successful saveAnonymous saves everything
SaveAnonymousSavesAll ==
  (started > 0 /\ ConvReq.pc = "done" /\ ConvReq.action = "saveAnonymous"
     /\ ConvReq.resp.status = 200) => SavedAll(ConvReq)

\* C24: a successful saveAnonymous creates exactly one session owned by the
\* caller, titled as stated, holding exactly the submitted messages in order;
\* a saveAnonymous of which an append fails ends with an error response and
\* leaves no session holding only part of the messages.
C24_SaveAnonymousAllOrNothing ==
  /\ SaveAnonymousSavesAll
  /\ (started > 0 /\ ConvReq.appendFailed) =>
       /\ ConvReq.pc = "done"
       /\ ConvReq.resp.status = 500
       /\ ~PartlySaved(ConvReq)

\* C25: in every success response to a caller without the registered flag,
\* qUsed is 1 or 2 and remaining is the integer 2 - qUsed, whatever counter
\* cookie the client presents: none, a negative number, or no number at all.
C25_CounterInRange ==
  \A s \in Slots :
    (IsDone(s) /\ req[s].resp.kind = "success"
       /\ ~HasRegisteredFlag(req[s])) =>
      /\ IsNum(req[s].resp.qUsed)
      /\ req[s].resp.qUsed.v \in {1, 2}
      /\ IsNum(req[s].resp.remaining)
      /\ req[s].resp.remaining.v = 2 - req[s].resp.qUsed.v

\* the request was charged to the free quota: its response sets the counter
\* cookie to the presented counter plus one
Charged(r) ==
  /\ r.resp.setCookie.name = "q_used"
  /\ IsNum(PresentedCounter(r))
  /\ ParseInt(r.resp.setCookie.value) = Num(PresentedCounter(r).v + 1)

\* C26: every success response belongs to a request that was charged to the
\* free quota or whose caller was resolved to an existing user.
C26_ChargedOrResolved ==
  \A s \in Slots :
    (IsDone(s) /\ req[s].resp.kind = "success") =>
      Charged(req[s]) \/ req[s].currentUser # NoUser

=============================================================================
